---- MODULE Spec2Model ----
(***************************************************************************)
(* A model of Wien2kParser (src/wien2kparser/wien2k_parser.py): the        *)
(* resolution of the companion files of a WIEN2k run, and the assembly of  *)
(* the method, system and calculation sections of the archive.             *)
(*                                                                         *)
(* File names are sequences of chunks ("case", ".", "energy", "up"), so    *)
(* that endswith, startswith and rsplit are computed on the names.  File   *)
(* contents are modelled after the regular expressions of the quantities   *)
(* have been applied: a text file is the mapping from quantity name to     *)
(* matched value, a line file is the sequence of its lines.                *)
(*                                                                         *)
(* An optional value is a sequence of length at most one: None is <<>>,    *)
(* and Some(v) is <<v>>.  Rational numbers are pairs <<num, den>>.         *)
(***************************************************************************)
EXTENDS Integers, Sequences, FiniteSets, TLC

VARIABLES
    listdir,   \* os.listdir(maindir): the names of the directory, in listing order
    fs,        \* the content of every file of the directory, by name
    pc,        \* the position of parse(): idle, method, system, scc, done, raised
    filepath,  \* self.filepath: the name of the main file (None before parse)
    parsers,   \* the mainfile of each of the five sub-parsers
    archive,   \* the sections of the archive: run, method, system, scc
    log,       \* the records emitted to self.logger, in order
    calls,     \* the calls made to get_nspin / get_wien2k_file / open, in order
    maindir,   \* self.maindir: the number of the directory parsed (0 before parse)
    parserdir, \* the directory of the mainfile of each sub-parser (0 when unset)
    old,       \* the content of the files of the directory parsed before
    previous   \* the outcome of the parse before the current one (None at first)

vars == <<listdir, fs, pc, filepath, parsers, archive, log, calls,
          maindir, parserdir, old, previous>>

-----------------------------------------------------------------------------
(* Bounds of the model. *)

\* the longest k-list file, in lines
MaxRows == 3
\* the longest eigenvalue file, in lines
MaxLines == 5
\* the most iteration blocks of a main output
MaxIter == 2
\* the most atom types of an iteration block (FGL and POS entries)
MaxTypes == 2
\* the largest site multiplicity
MaxMult == 2
\* the longest list of functional codes of an in0 file
MaxCodes == 3
\* the most companion files missing from an otherwise complete directory
MaxMissing == 2
\* the longest directory listing of the files that share a suffix
MaxSame == 3

-----------------------------------------------------------------------------
(* Optional values and small helpers. *)

None == <<>>
Some(v) == <<v>>
IsNone(o) == Len(o) = 0
IsSome(o) == Len(o) = 1
Val(o) == o[1]

Range(s) == {s[i] : i \in 1..Len(s)}

RECURSIVE SeqSum(_)
SeqSum(s) == IF Len(s) = 0 THEN 0 ELSE Head(s) + SeqSum(Tail(s))

RECURSIVE Flatten(_)
Flatten(ss) == IF Len(ss) = 0 THEN <<>> ELSE Head(ss) \o Flatten(Tail(ss))

RECURSIVE Repeat(_, _)
Repeat(x, n) == IF n <= 0 THEN <<>> ELSE <<x>> \o Repeat(x, n - 1)

\* the sequences over S of length at most n
SeqUpTo(S, n) == UNION {[1..k -> S] : k \in 0..n}

\* the sequences over S without repetition, of length at most n
RECURSIVE Listings(_, _)
Listings(S, n) ==
    IF n = 0 \/ S = {} THEN {<<>>}
    ELSE {<<>>} \cup UNION {{<<x>> \o l : l \in Listings(S \ {x}, n - 1)} : x \in S}

-----------------------------------------------------------------------------
(* File names. *)

Dot == "."
Name(base, ext) == base \o <<Dot>> \o ext

\* str.endswith / str.startswith
EndsWith(p, ext) ==
    /\ Len(ext) <= Len(p)
    /\ SubSeq(p, Len(p) - Len(ext) + 1, Len(p)) = ext
StartsWith(p, prefix) ==
    /\ Len(prefix) <= Len(p)
    /\ SubSeq(p, 1, Len(prefix)) = prefix

\* name.rsplit('.', 1)[0]: the name up to its last dot, the whole name without one
RSplitDot(name) ==
    LET dots == {i \in 1..Len(name) : name[i] = Dot}
    IN  IF dots = {} THEN name
        ELSE SubSeq(name, 1, (CHOOSE i \in dots : \A j \in dots : j <= i) - 1)

\* the suffixes the parser asks for
ExtKlist == <<"klist">>
ExtStruct == <<"struct">>
ExtIn0 == <<"in0">>
ExtIn1 == <<"in1">>
ExtIn1c == <<"in1", "c">>
ExtIn2Typo == <<"1n2">>
ExtIn2 == <<"in2">>
ExtIn2c == <<"in2", "c">>
ExtEnergy == <<"energy">>
ExtEnergyUp == <<"energy", "up">>
ExtEnergyDn == <<"energy", "dn">>
ExtDos == <<"dos1">>
ExtDosUp == <<"dos1", "up">>
ExtDosDn == <<"dos1", "dn">>

CompanionExts ==
    {ExtKlist, ExtStruct, ExtIn0, ExtIn1, ExtIn1c, ExtIn2, ExtIn2c,
     ExtEnergy, ExtEnergyUp, ExtEnergyDn, ExtDos, ExtDosUp, ExtDosDn}

Case == <<"case">>
MainFile == Name(Case, <<"scf">>)

-----------------------------------------------------------------------------
(* The text parser of the nomad library, as the parser uses it: a parser   *)
(* holds a mainfile; get(key) gives the value its quantity `key` matched   *)
(* in that file, and nothing when the parser has no file, when it has no   *)
(* top-level quantity of that name, or when the quantity matched nothing.  *)

\* the top-level quantities of OutParser; every other quantity of the main
\* output (VOL, ENE, FER, FGLi, POSi, ...) belongs to the sub-parser of
\* 'iteration'
OutQuantities == {"version", "start_date", "iteration"}
\* the quantities of an iteration block that the model follows
IterationQuantities == {"VOL", "ENE", "FER", "FGLi", "POSi"}

EmptyDict == <<>>

\* dict.get(key): the value under key, None without one
DictGet(d, key) == IF key \in DOMAIN d THEN d[key] ELSE None

\* a faulty variant of the assignment of a mainfile: a parser keeps the file it
\* holds when no file was resolved
SetMainfileIfFound(parser, file, dir) ==
    IF IsNone(file) THEN [file |-> parsers[parser], dir |-> parserdir[parser]]
    ELSE [file |-> file, dir |-> dir]

\* parser.mainfile = file, for a file resolved in directory dir (or None):
\* the parser holds the file and drops the results it has cached
SetMainfile(parser, file, dir) ==
    [file |-> file, dir |-> IF IsNone(file) THEN 0 ELSE dir]

\* the results of a parser that holds mainfile m: the quantities matched in
\* that file, read in the directory the file belongs to
ParserResults(m) ==
    IF IsNone(m.file) THEN EmptyDict
    ELSE IF m.dir = maindir THEN fs[Val(m.file)]
    ELSE old[Val(m.file)]

\* the results of a sub-parser: the quantities matched in its mainfile
Results(parser) ==
    ParserResults([file |-> parsers[parser], dir |-> parserdir[parser]])

\* TextParser.get(key, default)
TextGet(results, key, default) ==
    IF IsSome(DictGet(results, key)) THEN Val(DictGet(results, key)) ELSE default

-----------------------------------------------------------------------------
(* Wien2kParser.get_wien2k_file and get_nspin. *)

\* a faulty variant of get_wien2k_file: the prefix filter is skipped, the first
\* entry with the suffix is returned
get_wien2k_file_first(ext) ==
    LET paths == SelectSeq(listdir, LAMBDA p : EndsWith(p, ext))
    IN  IF Len(paths) = 0 THEN None ELSE Some(paths[1])

\* a faulty variant of get_wien2k_file: the prefix filter is applied to a sole
\* candidate too
get_wien2k_file_prefix(ext) ==
    LET paths == SelectSeq(listdir, LAMBDA p : EndsWith(p, ext))
        prefix == RSplitDot(Val(filepath))
        hits == SelectSeq(paths, LAMBDA p : StartsWith(p, prefix))
    IN  IF Len(paths) = 0 THEN None
        ELSE IF Len(hits) = 0 THEN None
        ELSE Some(hits[1])

get_wien2k_file(ext) ==
    LET paths == SelectSeq(listdir, LAMBDA p : EndsWith(p, ext))
        prefix == RSplitDot(Val(filepath))
        hits == SelectSeq(paths, LAMBDA p : StartsWith(p, prefix))
    IN  IF Len(paths) = 0 THEN None
        ELSE IF Len(paths) = 1 THEN Some(paths[1])
        ELSE IF Len(hits) = 0 THEN None
        ELSE Some(hits[1])

get_nspin ==
    IF DictGet(TextGet(Results("out"), "VOL", EmptyDict), "spinpolarization")
           = Some("SPINPOLARIZED")
    THEN 2 ELSE 1

\* the entries of the call log
CallNspin(n) == [op |-> "get_nspin", arg |-> <<>>, n |-> n]
CallFile(ext) == [op |-> "get_wien2k_file", arg |-> ext, n |-> 0]
CallOpen(name) == [op |-> "open", arg |-> name, n |-> 0]
CallEnter(fn) == [op |-> "enter", arg |-> <<fn>>, n |-> 0]

-----------------------------------------------------------------------------
(* Wien2kParser.get_kpoints.  A line of a k-list file is a data row (its   *)
(* six numbers), a row with a token that is no number ("bad": np.array     *)
(* raises, the row is skipped), a row of fewer than six numbers ("short":  *)
(* the indexing raises IndexError outside the try), or the END line.       *)

KRow(n1, n2, n3, den, w) == [kind |-> "row", n |-> <<n1, n2, n3>>, den |-> den, w |-> w]
KBad == [kind |-> "bad", n |-> <<>>, den |-> 0, w |-> 0]
KShort == [kind |-> "short", n |-> <<>>, den |-> 0, w |-> 0]
KEnd == [kind |-> "END", n |-> <<>>, den |-> 0, w |-> 0]

\* the loop of get_kpoints from line i on: the points and weights appended,
\* and whether an exception left the loop
RECURSIVE ReadKlist(_, _, _, _)
ReadKlist(lines, i, kpoints, weights) ==
    IF i > Len(lines) \/ lines[i].kind = "END"
    THEN [raised |-> FALSE, kpoints |-> kpoints, weights |-> weights]
    ELSE IF lines[i].kind = "bad"
    THEN ReadKlist(lines, i + 1, kpoints, weights)
    ELSE IF lines[i].kind = "short"
    THEN [raised |-> TRUE, kpoints |-> kpoints, weights |-> weights]
    ELSE ReadKlist(lines, i + 1,
             Append(kpoints, [c \in 1..3 |-> <<lines[i].n[c], lines[i].den>>]),
             Append(weights, lines[i].w))

\* weights /= sum(weights): a TypeError on the empty list (list / int), the
\* element-wise quotient otherwise (a zero sum gives the pairs <<w, 0>>)
get_kpoints ==
    LET k_list_file == get_wien2k_file(ExtKlist)
        lookup == <<CallFile(ExtKlist)>>
    IN  IF IsNone(k_list_file)
        THEN [raised |-> FALSE, val |-> None, calls |-> lookup]
        ELSE LET r == ReadKlist(fs[Val(k_list_file)], 1, <<>>, <<>>)
                 total == SeqSum(r.weights)
                 opened == lookup \o <<CallOpen(Val(k_list_file))>>
             IN  IF r.raised \/ Len(r.weights) = 0
                 THEN [raised |-> TRUE, val |-> None, calls |-> opened]
                 ELSE [raised |-> FALSE,
                       val |-> Some([kpoints |-> r.kpoints,
                                     weights |-> [i \in 1..Len(r.weights) |->
                                                     <<r.weights[i], total>>]]),
                       calls |-> opened]

-----------------------------------------------------------------------------
(* Wien2kParser.get_eigenvalues.  A line of an eigenvalue file is a        *)
(* k-point header ("K"), a band line with its eigenvalue ("E") or any      *)
(* other line ("X").                                                       *)

ELine(kind, v) == [kind |-> kind, v |-> v]

\* the loop over the lines of file number n (0-based, as in enumerate):
\* headers are recognised in the first file only, band lines in every file
RECURSIVE ReadEnergy(_, _, _)
ReadEnergy(lines, n, acc) ==
    IF Len(lines) = 0 THEN acc
    ELSE LET line == Head(lines)
         IN  IF n = 0 /\ line.kind = "K"
             THEN ReadEnergy(Tail(lines), n,
                      [acc EXCEPT !.kpoints = Append(@, line.v)])
             ELSE IF line.kind = "E"
             THEN ReadEnergy(Tail(lines), n,
                      [acc EXCEPT !.eigenvalues = Append(@, line.v)])
             ELSE ReadEnergy(Tail(lines), n, acc)

RECURSIVE ReadEnergyFiles(_, _, _)
ReadEnergyFiles(files, n, acc) ==
    IF n >= Len(files) THEN acc
    ELSE ReadEnergyFiles(files, n + 1, ReadEnergy(fs[Val(files[n + 1])], n, acc))

\* np.reshape(flat, (nspin, nk, nb)), in C order
Reshape(flat, nspin, nk, nb) ==
    [s \in 1..nspin |-> [k \in 1..nk |-> [b \in 1..nb |->
        flat[((s - 1) * nk + (k - 1)) * nb + b]]]]

\* the suffixes looked up for a spin-channel count
EnergyExts(nspin) == IF nspin = 1 THEN <<ExtEnergy>> ELSE <<ExtEnergyUp, ExtEnergyDn>>
DosExts(nspin) == IF nspin = 1 THEN <<ExtDos>> ELSE <<ExtDosUp, ExtDosDn>>

\* the files of a list of suffixes, and the calls that resolve and open them
FilesOf(exts) == [i \in 1..Len(exts) |-> get_wien2k_file(exts[i])]
LookupCalls(exts) == [i \in 1..Len(exts) |-> CallFile(exts[i])]
OpenCalls(files) == [i \in 1..Len(files) |-> CallOpen(Val(files[i]))]

\* a faulty variant of the call order of get_eigenvalues: the files are looked up
\* before the spin-channel count is determined
EigenCallsLookupFirst(nspin, exts) ==
    <<CallEnter("get_eigenvalues")>> \o LookupCalls(exts) \o <<CallNspin(nspin)>>

\* the calls get_eigenvalues makes up to the file check, in program order
EigenCalls(nspin, exts) ==
    <<CallEnter("get_eigenvalues"), CallNspin(nspin)>> \o LookupCalls(exts)

\* np.reshape raises (ZeroDivisionError in the division, ValueError in the
\* reshape) exactly when the values do not fill a [nspin, nk, nb] tensor
ReshapeFails(total, nspin, nk) ==
    \/ nspin * nk = 0
    \/ (total \div (nspin * nk)) * (nspin * nk) /= total

get_eigenvalues ==
    LET nspin == get_nspin
        exts == EnergyExts(nspin)
        files == FilesOf(exts)
        head == EigenCalls(nspin, exts)
    IN  IF \E i \in 1..Len(files) : IsNone(files[i])
        THEN [val |-> None, log |-> <<>>, calls |-> head]
        ELSE LET r == ReadEnergyFiles(files, 0, [kpoints |-> <<>>, eigenvalues |-> <<>>])
                 total == Len(r.eigenvalues)
                 nk == Len(r.kpoints)
                 opened == head \o OpenCalls(files)
             IN  IF ReshapeFails(total, nspin, nk)
                 THEN [val |-> None, log |-> <<"error: Error reading eigenvalues.">>,
                       calls |-> opened]
                 ELSE [val |-> Some([eigenvalues |->
                                         Reshape(r.eigenvalues, nspin, nk,
                                                 total \div (nspin * nk)),
                                     kpoints |-> r.kpoints]),
                       log |-> <<>>, calls |-> opened]

-----------------------------------------------------------------------------
(* Wien2kParser.get_dos.  A DOS file is a table np.loadtxt cannot read     *)
(* ("bad": the exception is caught and logged), an empty file ("empty":    *)
(* loadtxt gives an empty array and data[0] raises IndexError, which       *)
(* nothing catches), or a table of at least two rows and two columns,      *)
(* given by its columns.                                                   *)

DosTable(kind, cols) == [kind |-> kind, cols |-> cols]

\* the loop over the files: energy is the first column of the file read
\* last, dos collects the second column of every file
RECURSIVE ReadDos(_, _, _)
ReadDos(files, i, acc) ==
    IF i > Len(files) THEN acc
    ELSE LET data == fs[Val(files[i])]
             here == [acc EXCEPT !.opened = Append(@, CallOpen(Val(files[i])))]
         IN  IF data.kind = "bad" THEN [here EXCEPT !.outcome = "caught"]
             ELSE IF data.kind = "empty" THEN [here EXCEPT !.outcome = "raised"]
             ELSE ReadDos(files, i + 1,
                      [here EXCEPT !.energy = data.cols[1],
                                   !.dos = Append(@, data.cols[2])])

\* the calls get_dos makes up to the file check, in program order
DosCalls(nspin, exts) ==
    <<CallEnter("get_dos"), CallNspin(nspin)>> \o LookupCalls(exts)

get_dos ==
    LET nspin == get_nspin
        exts == DosExts(nspin)
        files == FilesOf(exts)
        head == DosCalls(nspin, exts)
    IN  IF \E i \in 1..Len(files) : IsNone(files[i])
        THEN [raised |-> FALSE, val |-> None, log |-> <<>>, calls |-> head]
        ELSE LET r == ReadDos(files, 1, [outcome |-> "ok", energy |-> <<>>,
                                         dos |-> <<>>, opened |-> <<>>])
                 opened == head \o r.opened
             IN  IF r.outcome = "caught"
                 THEN [raised |-> FALSE, val |-> None,
                       log |-> <<"error: Error reading dos.">>, calls |-> opened]
                 ELSE IF r.outcome = "raised"
                 THEN [raised |-> TRUE, val |-> None, log |-> <<>>, calls |-> opened]
                 ELSE [raised |-> FALSE,
                       val |-> Some([energy |-> r.energy, dos |-> r.dos]),
                       log |-> <<>>, calls |-> opened]

-----------------------------------------------------------------------------
(* Wien2kParser.parse_method. *)

XcFunctionalMap ==
    ("5" :> <<"LDA_X", "LDA_C_PW">>) @@ ("6" :> <<"HF_X">>) @@
    ("11" :> <<"GGA_X_WC", "GGA_C_PBE">>) @@ ("13" :> <<"GGA_X_PBE", "GGA_C_PBE">>) @@
    ("17" :> <<"GGA_X_PW91">>) @@ ("18" :> <<"HYB_GGA_XC_B3PW91">>) @@
    ("19" :> <<"GGA_X_PBE_SOL", "GGA_C_PBE_SOL">>) @@
    ("24" :> <<"GGA_X_B88", "GGA_C_LYP">>) @@ ("28" :> <<"MGGA_X_TB09", "LDA_C_PW">>) @@
    ("27" :> <<"MGGA_X_TPSS", "MGGA_C_TPSS">>) @@
    ("29" :> <<"MGGA_C_REVTPSS, GGA_C_REGTPSS">>) @@
    ("46" :> <<"GGA_X_HTBS">>) @@ ("47" :> <<"HYB_GGA_XC_B3LYP">>) @@
    ("XC_LDA" :> <<"LDA_X", "LDA_C_PW">>) @@ ("XC_PBE" :> <<"GGA_X_PBE", "GGA_C_PBE">>) @@
    ("XC_WC" :> <<"GGA_X_WC", "GGA_C_PBE">>) @@
    ("XC_PBESOL" :> <<"GGA_X_PBE_SOL", "GGA_C_PBE_SOL">>) @@
    ("XC_B3PW91" :> <<"HYB_GGA_XC_B3PW91">>) @@ ("XC_B3LYP" :> <<"HYB_GGA_XC_B3LYP">>) @@
    ("XC_MBJ" :> <<"MGGA_X_TB09", "LDA_C_PW">>) @@
    ("XC_TPSS" :> <<"MGGA_X_TPSS", "MGGA_C_TPSS">>) @@
    ("XC_REVTPSS" :> <<"MGGA_C_REVTPSS, GGA_C_REGTPSS">>) @@
    ("XC_MGGA_MS" :> <<"MGGA_X_MS", "MGGA_C_MS">>) @@
    ("XC_MVS" :> <<"MGGA_X_MVS", "MGGA_C_MVS">>) @@
    ("XC_MBEEF" :> <<"MGGA_X_MBEEF", "GGA_C_PBE_SOL">>) @@
    ("XC_SCAN" :> <<"MGGA_X_SCAN", "MGGA_C_SCAN">>) @@
    ("XC_SCANL" :> <<"MGGA_X_SCANL", "MGGA_C_SCANL">>) @@
    ("XC_RSCAN" :> <<"MGGA_X_RSCAN", "MGGA_C_RSCAN">>) @@
    ("XC_R2SCAN" :> <<"MGGA_X_R2SCAN", "MGGA_C_R2SCAN">>) @@
    ("XC_TM" :> <<"MGGA_X_TM", "MGGA_C_TM">>) @@
    ("EC_PW91" :> <<"GGA_X_PW91">>) @@ ("VC_PW91" :> <<"GGA_X_PW91">>) @@
    ("EX_B88" :> <<"GGA_X_B88">>) @@ ("VX_B88" :> <<"GGA_X_B88">>) @@
    ("EC_LYP" :> <<"GGA_C_LYP">>) @@ ("VC_LYP" :> <<"GGA_C_LYP">>) @@
    ("XC_HTBS" :> <<"GGA_X_HTBS">>) @@
    ("EX_LDA" :> <<"HF_X">>) @@ ("VX_LDA" :> <<"HF_X">>)

\* the name that stands for Python's None in the list [xc_functional]
NoneName == "None"
WarnXc == "warn: Cannot resolve XC functional."

\* the value of the quantity xc_functional as a list: the list itself, or
\* the single value (a name, or None) wrapped in a list
XcNames(value) ==
    IF IsNone(value) THEN <<NoneName>>
    ELSE IF Val(value).islist THEN Val(value).names
    ELSE <<Val(value).names[1]>>

\* a faulty variant of the loop over the functional names: the loop ends at the
\* first name the table does not know (break instead of continue)
RECURSIVE EmitFunctionalsBreak(_, _)
EmitFunctionalsBreak(names, acc) ==
    IF Len(names) = 0 THEN acc
    ELSE IF Head(names) \notin DOMAIN XcFunctionalMap
    THEN [acc EXCEPT !.log = Append(@, WarnXc)]
    ELSE EmitFunctionalsBreak(Tail(names),
             [acc EXCEPT !.names = @ \o XcFunctionalMap[Head(names)]])

\* the loop over the functional names: the XCFunctionals sections created
\* and the warnings logged
RECURSIVE EmitFunctionals(_, _)
EmitFunctionals(names, acc) ==
    IF Len(names) = 0 THEN acc
    ELSE IF Head(names) \notin DOMAIN XcFunctionalMap
    THEN EmitFunctionals(Tail(names), [acc EXCEPT !.log = Append(@, WarnXc)])
    ELSE EmitFunctionals(Tail(names),
             [acc EXCEPT !.names = @ \o XcFunctionalMap[Head(names)]])

\* the results of the parser of a file (nothing without a file)
ResultsOf(file) == IF IsNone(file) THEN EmptyDict ELSE fs[Val(file)]

\* the smearing kind written for a smearing keyword
SmearingKind(smearing) ==
    IF smearing = "GAUSS" THEN "gaussian"
    ELSE IF smearing = "TEMP" THEN "fermi"
    ELSE IF smearing = "TETRA" THEN "tetrahedra"
    ELSE smearing

\* the in1 file: suffix in1, else in1c
In1File ==
    IF IsSome(get_wien2k_file(ExtIn1)) THEN get_wien2k_file(ExtIn1)
    ELSE get_wien2k_file(ExtIn1c)
In1Calls ==
    IF IsSome(get_wien2k_file(ExtIn1)) THEN <<CallFile(ExtIn1)>>
    ELSE <<CallFile(ExtIn1), CallFile(ExtIn1c)>>

\* the in2 file: the suffix asked for is '1n2', else in2c
In2File ==
    IF IsSome(get_wien2k_file(ExtIn2Typo)) THEN get_wien2k_file(ExtIn2Typo)
    ELSE get_wien2k_file(ExtIn2c)
In2Calls ==
    IF IsSome(get_wien2k_file(ExtIn2Typo)) THEN <<CallFile(ExtIn2Typo)>>
    ELSE <<CallFile(ExtIn2Typo), CallFile(ExtIn2c)>>

\* the method section, the log records and the calls of parse_method, and
\* whether an exception left it (get_kpoints is its only call that raises)
parse_method ==
    LET in0_parser == SetMainfile("in0", get_wien2k_file(ExtIn0), maindir)
        in1_parser == SetMainfile("in1", In1File, maindir)
        in2_parser == SetMainfile("in2", In2File, maindir)
        in0 == ParserResults(in0_parser)
        xc == EmitFunctionals(XcNames(DictGet(in0, "xc_functional")),
                              [names |-> <<>>, log |-> <<>>])
        in1 == ParserResults(in1_parser)
        in2 == ParserResults(in2_parser)
        smearing == DictGet(in2, "smearing")
        kpoints == get_kpoints
    IN  [raised |-> kpoints.raised,
         in0_parser |-> in0_parser,
         in1_parser |-> in1_parser,
         in2_parser |-> in2_parser,
         log |-> xc.log,
         calls |-> <<CallEnter("parse_method"), CallNspin(get_nspin), CallFile(ExtIn0)>>
                   \o In1Calls \o In2Calls \o kpoints.calls,
         section |->
           [number_of_spin_channels |-> get_nspin,
            XC_functional_name |-> xc.names,
            x_wien2k_ifft |-> DictGet(in0, "fft"),
            x_wien2k_wf_switch |-> DictGet(in1, "wf_switch"),
            x_wien2k_rkmax |-> DictGet(in1, "rkmax"),
            x_wien2k_in2_gmax |-> DictGet(in2, "gmax"),
            x_wien2k_in2_switch |-> DictGet(in2, "switch"),
            x_wien2k_in2_emin |-> DictGet(in2, "emin"),
            smearing_kind |->
                IF IsSome(smearing) THEN Some(SmearingKind(Val(smearing).kind)) ELSE None,
            smearing_width |->
                IF IsSome(smearing) THEN Some(<<"Ry->J", Val(smearing).width>>) ELSE None,
            k_mesh_points |->
                IF IsSome(kpoints.val) THEN Some(Val(kpoints.val).kpoints) ELSE None,
            k_mesh_weights |->
                IF IsSome(kpoints.val) THEN Some(Val(kpoints.val).weights) ELSE None]]

-----------------------------------------------------------------------------
(* StructParser.get_atoms and Wien2kParser.parse_system.  A struct file    *)
(* holds the quantities lattice and atom, and whether ase reads it.        *)

\* the atomic numbers of the atoms: Z of every atom type, once per position
AtomNumbers(atom) ==
    Flatten([i \in 1..Len(atom) |-> Repeat(atom[i].Z, atom[i].positions)])

\* get_atoms: nothing without a file; the atoms ase reads; else the atoms
\* built from the parsed quantities, nothing without the quantity lattice,
\* and a TypeError (None[:3]) when lattice has no lattice_constants
get_atoms(struct_parser) ==
    LET struct == ParserResults(struct_parser)
        file == struct_parser.file
        atom == TextGet(struct, "atom", <<>>)
    IN  IF IsNone(file) THEN [raised |-> FALSE, val |-> None]
        ELSE IF struct.ase_ok THEN [raised |-> FALSE, val |-> Some(AtomNumbers(atom))]
        ELSE IF IsNone(DictGet(struct, "lattice")) THEN [raised |-> FALSE, val |-> None]
        ELSE IF IsNone(DictGet(Val(struct.lattice), "lattice_constants"))
        THEN [raised |-> TRUE, val |-> None]
        ELSE [raised |-> FALSE, val |-> Some(AtomNumbers(atom))]

parse_system ==
    LET struct_parser == SetMainfile("struct", get_wien2k_file(ExtStruct), maindir)
        struct == ParserResults(struct_parser)
        atoms == get_atoms(struct_parser)
    IN  [raised |-> atoms.raised,
         struct_parser |-> struct_parser,
         calls |-> <<CallEnter("parse_system"), CallFile(ExtStruct)>>,
         section |->
           [x_wien2k_lattice |-> DictGet(struct, "lattice"),
            x_wien2k_section_equiv_atoms |-> TextGet(struct, "atom", <<>>),
            atom_labels |-> atoms.val]]

-----------------------------------------------------------------------------
(* Wien2kParser.parse_scc. *)

\* the value of sub-quantity sub of the sub-section key of an iteration block
SubGet(block, key, sub) ==
    IF IsSome(block[key]) THEN DictGet(Val(block[key]), sub) ELSE None

\* a faulty variant of the iteration record: the energies of a block without
\* the ENE or FER sub-section are written as zero
ScfIterationDefault(block) ==
    [energy_total_scf_iteration |->
         IF IsSome(block["ENE"]) THEN SubGet(block, "ENE", "energy_total_scf_iteration")
         ELSE Some(0),
     energy_reference_fermi_iteration |->
         IF IsSome(block["FER"]) THEN SubGet(block, "FER", "energy_reference_fermi_iteration")
         ELSE Some(0),
     x_wien2k_spinpolarization |-> SubGet(block, "VOL", "spinpolarization"),
     x_wien2k_for_gl |-> block["FGLi"],
     x_wien2k_atom_mult |->
         IF IsSome(block["POSi"])
         THEN Some([i \in 1..Len(Val(block["POSi"])) |-> Val(block["POSi"])[i].atom_mult])
         ELSE None]

\* the ScfIteration section written for one iteration block
ScfIteration(block) ==
    [energy_total_scf_iteration |-> SubGet(block, "ENE", "energy_total_scf_iteration"),
     energy_reference_fermi_iteration |->
         SubGet(block, "FER", "energy_reference_fermi_iteration"),
     x_wien2k_spinpolarization |-> SubGet(block, "VOL", "spinpolarization"),
     x_wien2k_for_gl |-> block["FGLi"],
     x_wien2k_atom_mult |->
         IF IsSome(block["POSi"])
         THEN Some([i \in 1..Len(Val(block["POSi"])) |-> Val(block["POSi"])[i].atom_mult])
         ELSE None]

\* a faulty variant of the force expansion: every type's force is written once,
\* whatever its multiplicity
RECURSIVE ExpandForcesOnce(_, _, _, _)
ExpandForcesOnce(for_gl, atom_mult, n, forces) ==
    IF n > Len(for_gl) THEN [raised |-> FALSE, forces |-> forces]
    ELSE IF IsNone(atom_mult) \/ n > Len(Val(atom_mult))
    THEN [raised |-> TRUE, forces |-> forces]
    ELSE ExpandForcesOnce(for_gl, atom_mult, n + 1, forces \o <<for_gl[n]>>)

\* the loop forces.extend([force] * atom_mult[n]); atom_mult[n] raises a
\* TypeError when atom_mult is None, an IndexError when it is too short
RECURSIVE ExpandForces(_, _, _, _)
ExpandForces(for_gl, atom_mult, n, forces) ==
    IF n > Len(for_gl) THEN [raised |-> FALSE, forces |-> forces]
    ELSE IF IsNone(atom_mult) \/ n > Len(Val(atom_mult))
    THEN [raised |-> TRUE, forces |-> forces]
    ELSE ExpandForces(for_gl, atom_mult, n + 1,
             forces \o Repeat(for_gl[n], Val(atom_mult)[n]))

\* a faulty variant of parse_scc: the final values are taken from the first
\* iteration record
parse_scc_first ==
    LET iteration == DictGet(Results("out"), "iteration")
        scf == [i \in 1..Len(Val(iteration)) |-> ScfIteration(Val(iteration)[i])]
        sec_scf == scf[1]
        expanded == IF IsSome(sec_scf.x_wien2k_for_gl)
                    THEN ExpandForces(Val(sec_scf.x_wien2k_for_gl),
                                      sec_scf.x_wien2k_atom_mult, 1, <<>>)
                    ELSE [raised |-> FALSE, forces |-> <<>>]
        eigenvalues == get_eigenvalues
        dos == get_dos
        enter == <<CallEnter("parse_scc")>>
        partial == [scf_iteration |-> scf,
                    energy_total |-> sec_scf.energy_total_scf_iteration,
                    atom_forces |-> None,
                    energy_reference_fermi |-> None,
                    eigenvalues |-> None,
                    dos |-> None]
        full == [partial EXCEPT
                    !.atom_forces =
                        IF IsSome(sec_scf.x_wien2k_for_gl)
                        THEN Some([unit |-> "mRy/bohr", v |-> expanded.forces])
                        ELSE None,
                    !.energy_reference_fermi = sec_scf.energy_reference_fermi_iteration,
                    !.eigenvalues =
                        IF IsSome(eigenvalues.val)
                        THEN Some([unit |-> "rydberg",
                                   eigenvalues_values |-> Val(eigenvalues.val).eigenvalues,
                                   eigenvalues_kpoints |-> Val(eigenvalues.val).kpoints])
                        ELSE None,
                    !.dos =
                        IF IsSome(dos.val)
                        THEN Some([unit |-> "1/rydberg->1/J",
                                   dos_values |-> Val(dos.val).dos,
                                   dos_energies |-> Val(dos.val).energy])
                        ELSE None]
    IN  IF IsNone(iteration)
        THEN [raised |-> FALSE, section |-> None, log |-> <<>>, calls |-> enter]
        ELSE IF expanded.raised
        THEN [raised |-> TRUE, section |-> Some(partial), log |-> <<>>, calls |-> enter]
        ELSE [raised |-> dos.raised, section |-> Some(full),
              log |-> eigenvalues.log \o dos.log,
              calls |-> enter \o eigenvalues.calls \o dos.calls]

\* the calculation section, the log records and the calls of parse_scc;
\* section is None when the main output has no iteration
parse_scc ==
    LET iteration == DictGet(Results("out"), "iteration")
        scf == [i \in 1..Len(Val(iteration)) |-> ScfIteration(Val(iteration)[i])]
        sec_scf == scf[Len(scf)]
        expanded == IF IsSome(sec_scf.x_wien2k_for_gl)
                    THEN ExpandForces(Val(sec_scf.x_wien2k_for_gl),
                                      sec_scf.x_wien2k_atom_mult, 1, <<>>)
                    ELSE [raised |-> FALSE, forces |-> <<>>]
        eigenvalues == get_eigenvalues
        dos == get_dos
        enter == <<CallEnter("parse_scc")>>
        partial == [scf_iteration |-> scf,
                    energy_total |-> sec_scf.energy_total_scf_iteration,
                    atom_forces |-> None,
                    energy_reference_fermi |-> None,
                    eigenvalues |-> None,
                    dos |-> None]
        full == [partial EXCEPT
                    !.atom_forces =
                        IF IsSome(sec_scf.x_wien2k_for_gl)
                        THEN Some([unit |-> "mRy/bohr", v |-> expanded.forces])
                        ELSE None,
                    !.energy_reference_fermi = sec_scf.energy_reference_fermi_iteration,
                    !.eigenvalues =
                        IF IsSome(eigenvalues.val)
                        THEN Some([unit |-> "rydberg",
                                   eigenvalues_values |-> Val(eigenvalues.val).eigenvalues,
                                   eigenvalues_kpoints |-> Val(eigenvalues.val).kpoints])
                        ELSE None,
                    !.dos =
                        IF IsSome(dos.val)
                        THEN Some([unit |-> "1/rydberg->1/J",
                                   dos_values |-> Val(dos.val).dos,
                                   dos_energies |-> Val(dos.val).energy])
                        ELSE None]
    IN  IF IsNone(iteration)
        THEN [raised |-> FALSE, section |-> None, log |-> <<>>, calls |-> enter]
        ELSE IF expanded.raised
        THEN [raised |-> TRUE, section |-> Some(partial), log |-> <<>>, calls |-> enter]
        ELSE [raised |-> dos.raised, section |-> Some(full),
              log |-> eigenvalues.log \o dos.log,
              calls |-> enter \o eigenvalues.calls \o dos.calls]

-----------------------------------------------------------------------------
(* The inputs: a directory listing and the content of its files.  The      *)
(* baseline is the complete directory of a run named "case"; every family  *)
(* of inputs varies one part of it over a bounded set.                     *)

\* an iteration block of the main output, by its sub-sections
Block(vol, ene, fer, fgl, pos) ==
    [VOL |-> vol, ENE |-> ene, FER |-> fer, FGLi |-> fgl, POSi |-> pos]
Vol(flag) == Some([spinpolarization |-> flag])
Ene(e) == Some([energy_total_scf_iteration |-> Some(e)])
Fer(e) == Some([energy_reference_fermi_iteration |-> Some(e)])
Pos(mults) == Some([i \in 1..Len(mults) |-> [atom_mult |-> mults[i]]])

\* the main output, by its iteration blocks
Scf(blocks) ==
    [version |-> Some("19.1"), start_date |-> None,
     iteration |-> IF Len(blocks) = 0 THEN None ELSE Some(blocks)]

ForceSet == {<<1, 0, 1>>, <<2, 0, 2>>}
BaseBlock ==
    Block(Vol(Some("NON-SPINPOLARIZED")), Ene(7), Fer(3),
          Some(<<<<1, 0, 1>>, <<2, 0, 2>>>>), Pos(<<2, 1>>))
BaseScf == Scf(<<BaseBlock>>)

\* the run a file name belongs to: 1 for "case.", 2 for "case2.", 3 otherwise
Tag(name) ==
    IF StartsWith(name, <<"case", Dot>>) THEN 1
    ELSE IF StartsWith(name, <<"case">>) THEN 2 ELSE 3

K == ELine("K", 0)
E1 == ELine("E", 1)
E2 == ELine("E", 2)
X == ELine("X", 0)

BaseStruct ==
    [ase_ok |-> TRUE,
     lattice |-> Some([lattice_constants |-> Some(<<5, 5, 5, 90, 90, 90>>)]),
     atom |-> Some(<<[positions |-> 2, Z |-> 13], [positions |-> 1, Z |-> 8]>>)]

\* the baseline content of a file, by its suffix (and its run, for k-lists)
BaseContent(name) ==
    IF name = MainFile THEN BaseScf
    ELSE IF EndsWith(name, ExtKlist)
    THEN <<KRow(1, 1, 1, 4, Tag(name)), KRow(1, 1, 3, 4, 1), KEnd>>
    ELSE IF EndsWith(name, ExtStruct) THEN BaseStruct
    ELSE IF EndsWith(name, ExtIn0)
    THEN [xc_functional |-> Some([islist |-> FALSE, names |-> <<"XC_PBE">>]),
          fft |-> Some(<<30, 30, 30, 2>>)]
    ELSE IF EndsWith(name, ExtIn1) \/ EndsWith(name, ExtIn1c)
    THEN [wf_switch |-> Some("WFFIL"),
          rkmax |-> Some(IF EndsWith(name, ExtIn1) THEN 7 ELSE 8)]
    ELSE IF EndsWith(name, ExtIn2) \/ EndsWith(name, ExtIn2c)
    THEN [switch |-> Some("TOT"), emin |-> Some(<<-9, 4>>),
          smearing |-> Some([kind |-> "TETRA", width |-> 0]),
          gmax |-> Some(IF EndsWith(name, ExtIn2) THEN 12 ELSE 14)]
    ELSE IF EndsWith(name, ExtEnergy) THEN <<X, K, E1, E2, K, E2, E1>>
    ELSE IF EndsWith(name, ExtEnergyUp) THEN <<K, E1, K, E2>>
    ELSE IF EndsWith(name, ExtEnergyDn) THEN <<K, E2, K, E1>>
    ELSE IF EndsWith(name, ExtDos) THEN DosTable("table", <<<<1, 2>>, <<5, 6>>>>)
    ELSE IF EndsWith(name, ExtDosUp) THEN DosTable("table", <<<<1, 2>>, <<7, 8>>>>)
    ELSE DosTable("table", <<<<1, 2>>, <<8, 7>>>>)

\* the complete directory of the run "case", in a listing order
FullDir ==
    <<MainFile, Name(Case, ExtStruct), Name(Case, ExtIn0), Name(Case, ExtIn1),
      Name(Case, ExtIn1c), Name(Case, ExtIn2), Name(Case, ExtIn2c),
      Name(Case, ExtKlist), Name(Case, ExtEnergy), Name(Case, ExtEnergyUp),
      Name(Case, ExtEnergyDn), Name(Case, ExtDos), Name(Case, ExtDosUp),
      Name(Case, ExtDosDn)>>

BaseFs(dir) == [name \in Range(dir) |-> BaseContent(name)]
World(dir, files) == [listdir |-> dir, fs |-> files]
\* the baseline with the content of one file replaced
With(name, content) == World(FullDir, [BaseFs(FullDir) EXCEPT ![name] = content])

\* 1. the files that share the suffix klist, in every listing order
KlistCandidates ==
    {Name(Case, ExtKlist), Name(<<"case", "2">>, ExtKlist),
     Name(<<"other">>, ExtKlist), Name(<<"more">>, ExtKlist)}
DirWorlds ==
    {LET dir == SelectSeq(FullDir, LAMBDA p : ~EndsWith(p, ExtKlist)) \o l
     IN  World(dir, BaseFs(dir)) : l \in Listings(KlistCandidates, MaxSame)}

\* 2. companion files missing, for every spin flag of the main output
SpinFlags == {None, Vol(None), Vol(Some("NON-SPINPOLARIZED")), Vol(Some("SPINPOLARIZED"))}
MissingWorlds ==
    {LET dir == SelectSeq(FullDir, LAMBDA p : p \notin gone)
     IN  World(dir, [BaseFs(dir) EXCEPT ![MainFile] =
                        Scf(<<[BaseBlock EXCEPT !.VOL = vol]>>)]) :
        gone \in {g \in SUBSET (Range(FullDir) \ {MainFile}) : Cardinality(g) <= MaxMissing},
        vol \in SpinFlags}

\* 3. the k-list file
KlistLines ==
    {KRow(1, 1, 1, 4, 1), KRow(1, 1, 3, 4, 1), KRow(0, 1, 0, 2, 2), KRow(0, 0, 0, 1, 0),
     KBad, KShort, KEnd}
KlistWorlds == {With(Name(Case, ExtKlist), lines) : lines \in SeqUpTo(KlistLines, MaxRows)}

\* 4. the iteration blocks of the main output: the forces and the
\* multiplicities of the last block, after blocks of a few kinds
ForceLists == {None} \cup {Some(f) : f \in SeqUpTo(ForceSet, MaxTypes) \ {<<>>}}
MultLists == {None} \cup {Pos(m) : m \in SeqUpTo(1..MaxMult, MaxTypes) \ {<<>>}}
EarlyBlocks ==
    {BaseBlock, Block(None, None, None, Some(<<<<2, 0, 2>>>>), None)}
LastBlocks ==
    {Block(Vol(Some("NON-SPINPOLARIZED")), Ene(5), Fer(2), fgl, pos) :
        fgl \in ForceLists, pos \in MultLists}
    \cup {Block(vol, ene, fer, None, None) :
        vol \in SpinFlags, ene \in {None, Ene(5)}, fer \in {None, Fer(2)}}
ScfWorlds ==
    {With(MainFile, Scf(<<>>))}
    \cup {With(MainFile, Scf(early \o <<last>>)) :
            early \in SeqUpTo(EarlyBlocks, MaxIter - 1), last \in LastBlocks}

\* 5. the functional codes of the in0 file
CodeSet == {"13", "6", "XC_PBE", "99"}
XcValues ==
    {None}
    \cup {Some([islist |-> FALSE, names |-> <<c>>]) : c \in CodeSet}
    \cup {Some([islist |-> TRUE, names |-> l]) : l \in SeqUpTo(CodeSet, MaxCodes) \ {<<>>}}
In0Worlds ==
    {With(Name(Case, ExtIn0), [xc_functional |-> xc, fft |-> None]) : xc \in XcValues}

\* 6. the eigenvalue file
EnergyWorlds ==
    {With(Name(Case, ExtEnergy), lines) : lines \in SeqUpTo({K, E1, E2, X}, MaxLines)}

\* 7. the DOS files, for a spin-polarised and a non-spin-polarised main output
DosContents ==
    {DosTable("bad", <<>>), DosTable("empty", <<>>)}
    \cup {DosTable("table", <<e, d>>) : e \in {<<1, 2>>, <<1, 3>>}, d \in {<<5, 6>>, <<6, 5>>}}
DosWorlds ==
    {World(FullDir, [BaseFs(FullDir) EXCEPT
                        ![MainFile] = Scf(<<[BaseBlock EXCEPT !.VOL = Vol(Some(flag))]>>),
                        ![Name(Case, ExtDos)] = d,
                        ![Name(Case, ExtDosUp)] = up,
                        ![Name(Case, ExtDosDn)] = dn]) :
        flag \in {"NON-SPINPOLARIZED", "SPINPOLARIZED"},
        d \in DosContents, up \in DosContents, dn \in DosContents}

\* 8. the struct file
StructContents ==
    {[ase_ok |-> ok, lattice |-> lat, atom |-> atom] :
        ok \in BOOLEAN,
        lat \in {None, Some([lattice_constants |-> None]), BaseStruct.lattice},
        atom \in {None, Some(<<[positions |-> 1, Z |-> 8]>>), BaseStruct.atom}}
StructWorlds == {With(Name(Case, ExtStruct), c) : c \in StructContents}

\* 9. two calls of parse on one parser object.  The first directory is a
\* directory of family 1, or the baseline with a k-list file that makes
\* get_kpoints raise.
FirstWorlds == DirWorlds \cup {With(Name(Case, ExtKlist), <<KShort>>)}

\* the listings of the entries of a directory: the files that share the
\* suffix klist come in any order, after the other entries
Relistings(dir) ==
    LET rest == SelectSeq(dir, LAMBDA p : ~EndsWith(p, ExtKlist))
        same == {p \in Range(dir) : EndsWith(p, ExtKlist)}
    IN  {rest \o l : l \in {m \in Listings(same, Cardinality(same)) :
                                Len(m) = Cardinality(same)}}

\* the content of a file of the second directory: values that no file of
\* the first directory holds
SecondContent(name) ==
    IF EndsWith(name, ExtStruct)
    THEN [ase_ok |-> TRUE,
          lattice |-> Some([lattice_constants |-> Some(<<7, 7, 7, 90, 90, 90>>)]),
          atom |-> Some(<<[positions |-> 1, Z |-> 26]>>)]
    ELSE IF EndsWith(name, ExtIn0)
    THEN [xc_functional |-> Some([islist |-> FALSE, names |-> <<"XC_LDA">>]),
          fft |-> Some(<<40, 40, 40, 2>>)]
    ELSE IF EndsWith(name, ExtIn1) \/ EndsWith(name, ExtIn1c)
    THEN [wf_switch |-> Some("WFPRI"),
          rkmax |-> Some(IF EndsWith(name, ExtIn1) THEN 9 ELSE 10)]
    ELSE IF EndsWith(name, ExtIn2) \/ EndsWith(name, ExtIn2c)
    THEN [switch |-> Some("FOR"), emin |-> Some(<<-7, 2>>),
          smearing |-> Some([kind |-> "GAUSS", width |-> 1]),
          gmax |-> Some(IF EndsWith(name, ExtIn2) THEN 16 ELSE 18)]
    ELSE BaseContent(name)

\* the second directory: complete or with one companion file missing, with
\* a k-list file that reads or one that makes get_kpoints raise
SecondWorlds ==
    {LET dir == SelectSeq(FullDir, LAMBDA p : p \notin gone)
         files == [name \in Range(dir) |-> SecondContent(name)]
     IN  World(dir, IF Name(Case, ExtKlist) \in Range(dir)
                    THEN [files EXCEPT ![Name(Case, ExtKlist)] = klist]
                    ELSE files) :
        gone \in {g \in SUBSET (Range(FullDir) \ {MainFile}) : Cardinality(g) <= 1},
        klist \in {BaseContent(Name(Case, ExtKlist)), <<KShort>>}}

Worlds ==
    DirWorlds \cup MissingWorlds \cup KlistWorlds \cup ScfWorlds \cup In0Worlds
    \cup EnergyWorlds \cup DosWorlds \cup StructWorlds

-----------------------------------------------------------------------------
(* The parser object and parse(). *)

NoSections == [run |-> None, method |-> None, system |-> None, scc |-> None]

NoParsers == [out |-> None, in0 |-> None, in1 |-> None, in2 |-> None, struct |-> None]
NoDirs == [out |-> 0, in0 |-> 0, in1 |-> 0, in2 |-> 0, struct |-> 0]

\* the parser object after __init__, before a directory w
Fresh(w) ==
    /\ listdir = w.listdir /\ fs = w.fs
    /\ pc = "idle"
    /\ filepath = None
    /\ parsers = NoParsers
    /\ archive = NoSections
    /\ log = <<>>
    /\ calls = <<>>
    /\ maindir = 0
    /\ parserdir = NoDirs
    /\ old = <<>>
    /\ previous = None

Init == \E w \in Worlds : Fresh(w)

\* parse(), up to the call of parse_method, on the main file of directory
\* dir: filepath and maindir are set, init_parser gives the main file to
\* out_parser, the run section is made in the archive passed to parse
Begin(dir, main) ==
    /\ filepath' = Some(MainFile)
    /\ maindir' = dir
    /\ parsers' = [parsers EXCEPT !.out = SetMainfile("out", Some(MainFile), dir).file]
    /\ parserdir' = [parserdir EXCEPT !.out = SetMainfile("out", Some(MainFile), dir).dir]
    /\ archive' = [NoSections EXCEPT !.run =
                      Some([program_name |-> "WIEN2k",
                            program_version |-> TextGet(main, "version", ""),
                            sampling_method |-> "single_point"])]
    /\ log' = <<>>
    /\ calls' = <<>>
    /\ pc' = "method"

\* the first call of parse
Parse ==
    /\ pc = "idle"
    /\ Begin(1, fs[MainFile])
    /\ UNCHANGED <<listdir, fs, old, previous>>

\* what is left of a call of parse that has ended
Outcome == [archive |-> archive, pc |-> pc, parsers |-> parsers, listdir |-> listdir]

\* parse is called again on the same, unmodified directory, with a new
\* archive; os.listdir may give the entries in another order
ParseSame ==
    /\ pc \in {"done", "raised"}
    /\ IsNone(previous)
    /\ \E l \in Relistings(listdir) : listdir' = l
    /\ Begin(maindir, fs[MainFile])
    /\ previous' = Some(Outcome)
    /\ UNCHANGED <<fs, old>>

\* parse is called again on the main file of another directory, with a
\* new archive
ParseOther ==
    /\ pc \in {"done", "raised"}
    /\ IsNone(previous)
    /\ \E w \in SecondWorlds :
          /\ listdir' = w.listdir
          /\ fs' = w.fs
          /\ Begin(maindir + 1, w.fs[MainFile])
    /\ old' = fs
    /\ previous' = Some(Outcome)

ParseMethod ==
    /\ pc = "method"
    /\ LET m == parse_method
       IN  /\ archive' = [archive EXCEPT !.method = Some(m.section)]
           /\ parsers' = [parsers EXCEPT !.in0 = m.in0_parser.file,
                                         !.in1 = m.in1_parser.file,
                                         !.in2 = m.in2_parser.file]
           /\ parserdir' = [parserdir EXCEPT !.in0 = m.in0_parser.dir,
                                             !.in1 = m.in1_parser.dir,
                                             !.in2 = m.in2_parser.dir]
           /\ log' = log \o m.log
           /\ calls' = calls \o m.calls
           /\ pc' = IF m.raised THEN "raised" ELSE "system"
    /\ UNCHANGED <<listdir, fs, filepath, maindir, old, previous>>

ParseSystem ==
    /\ pc = "system"
    /\ LET m == parse_system
       IN  /\ archive' = [archive EXCEPT !.system = Some(m.section)]
           /\ parsers' = [parsers EXCEPT !.struct = m.struct_parser.file]
           /\ parserdir' = [parserdir EXCEPT !.struct = m.struct_parser.dir]
           /\ calls' = calls \o m.calls
           /\ pc' = IF m.raised THEN "raised" ELSE "scc"
    /\ UNCHANGED <<listdir, fs, filepath, log, maindir, old, previous>>

ParseScc ==
    /\ pc = "scc"
    /\ LET m == parse_scc
       IN  /\ archive' = [archive EXCEPT !.scc = m.section]
           /\ log' = log \o m.log
           /\ calls' = calls \o m.calls
           /\ pc' = IF m.raised THEN "raised" ELSE "done"
    /\ UNCHANGED <<listdir, fs, filepath, parsers, maindir, parserdir, old, previous>>

Next == Parse \/ ParseMethod \/ ParseSystem \/ ParseScc

Spec == Init /\ [][Next]_vars

\* one parser object used for two calls of parse
InitReparse == \E w \in FirstWorlds : Fresh(w)
NextReparse == Parse \/ ParseMethod \/ ParseSystem \/ ParseScc \/ ParseSame \/ ParseOther
SpecReparse == InitReparse /\ [][NextReparse]_vars

-----------------------------------------------------------------------------
(* What the claims speak about, stated on the inputs and on the archive.   *)

\* the iteration blocks of the main output
MainBlocks == TextGet(fs[MainFile], "iteration", <<>>)

\* the main output reports a spin-polarised calculation: the VOL
\* sub-section of one of its iteration blocks carries the flag SPINPOLARIZED
ReportsSpinPolarized ==
    \E i \in 1..Len(MainBlocks) :
        SubGet(MainBlocks[i], "VOL", "spinpolarization") = Some("SPINPOLARIZED")

\* the spin channels of the run the main output reports
RunChannels == IF ReportsSpinPolarized THEN 2 ELSE 1

\* the directory entries that end with a suffix
Candidates(ext) == {p \in Range(listdir) : EndsWith(p, ext)}

\* the base name of the main file, up to its last dot
MainPrefix == <<"case">>

Started == pc /= "idle"
MethodRan == pc \in {"system", "scc", "done"} \/ (pc = "raised" /\ IsSome(archive.method))
Method == Val(archive.method)

\* the suffixes of the eigenvalue and DOS files
SpinExts == {ExtEnergy, ExtEnergyUp, ExtEnergyDn, ExtDos, ExtDosUp, ExtDosDn}

\* the indexes of the call log that belong to the function entered at e
Segment(e) ==
    {i \in (e + 1)..Len(calls) : \A k \in (e + 1)..i : calls[k].op /= "enter"}

-----------------------------------------------------------------------------
(* C1: get_nspin returns 2 whenever the VOL sub-section of an iteration    *)
(* block of the main output reports a SPINPOLARIZED calculation and 1      *)
(* otherwise, and the eigenvalue and DOS files looked up are energyup /    *)
(* energydn and dos1up / dos1dn with 2 channels, energy and dos1 with 1.   *)
C1_SpinChannelDetection ==
    Started =>
        /\ get_nspin = RunChannels
        /\ \A i \in 1..Len(calls) :
              (calls[i].op = "get_wien2k_file" /\ calls[i].arg \in SpinExts) =>
                  calls[i].arg \in (IF ReportsSpinPolarized
                                    THEN {ExtEnergyUp, ExtEnergyDn, ExtDosUp, ExtDosDn}
                                    ELSE {ExtEnergy, ExtDos})

(* C2: get_wien2k_file(ext) is None when no directory entry ends with ext; *)
(* when several entries end with ext it is an entry that ends with ext and *)
(* starts with the base name of the main file, and None when no entry      *)
(* with the suffix starts with that base name.                             *)
C2_CompanionResolution ==
    Started =>
        \A ext \in CompanionExts \cup {ExtIn2Typo} :
            LET r == get_wien2k_file(ext)
                good == {p \in Candidates(ext) : StartsWith(p, MainPrefix)}
            IN  /\ Candidates(ext) = {} => IsNone(r)
                /\ Cardinality(Candidates(ext)) >= 2 =>
                      IF good = {} THEN IsNone(r) ELSE IsSome(r) /\ Val(r) \in good

\* several entries share the suffix klist, the first of them in listing
\* order does not start with the base name, and a later one is returned
C2_Witness ==
    /\ pc = "done"
    /\ Cardinality(Candidates(ExtKlist)) >= 2
    /\ ~StartsWith(SelectSeq(listdir, LAMBDA p : EndsWith(p, ExtKlist))[1], MainPrefix)
    /\ IsSome(get_wien2k_file(ExtKlist))
    /\ IsSome(Method.k_mesh_points)

(* C3: in get_eigenvalues and in get_dos the spin-channel count is         *)
(* determined before any eigenvalue or DOS file is looked up, and the      *)
(* suffixes looked up are those of that count: energy or dos1 for one      *)
(* channel, the up and dn suffixes for two.                                *)
C3_NspinBeforeLookup ==
    /\ \A i \in 1..Len(calls) :
          (calls[i].op = "get_wien2k_file" /\ calls[i].arg \in SpinExts) =>
              \E j \in 1..(i - 1) :
                  /\ calls[j].op = "get_nspin"
                  /\ \A k \in (j + 1)..(i - 1) : calls[k].op = "get_wien2k_file"
    /\ \A e \in 1..Len(calls) :
          (calls[e].op = "enter" /\ calls[e].arg \in {<<"get_eigenvalues">>, <<"get_dos">>}) =>
              \E j \in Segment(e) :
                  /\ calls[j].op = "get_nspin"
                  /\ {calls[i].arg : i \in {k \in Segment(e) : calls[k].op = "get_wien2k_file"}}
                       = IF calls[e].arg = <<"get_eigenvalues">>
                         THEN (IF calls[j].n = 1 THEN {ExtEnergy}
                               ELSE {ExtEnergyUp, ExtEnergyDn})
                         ELSE (IF calls[j].n = 1 THEN {ExtDos}
                               ELSE {ExtDosUp, ExtDosDn})

\* parse has run to its end, and both an eigenvalue file and a DOS file
\* were looked up and opened
C3_Witness ==
    /\ pc = "done"
    /\ \E i, j \in 1..Len(calls) :
          /\ calls[i] = CallFile(ExtEnergy)
          /\ calls[j] = CallFile(ExtDos)
          /\ i < j
    /\ \E i \in 1..Len(calls) : calls[i] = CallOpen(Name(Case, ExtEnergy))
    /\ IsSome(Val(archive.scc).eigenvalues)

-----------------------------------------------------------------------------
\* the rationals a and b are equal numbers
RatEq(a, b) == a[2] /= 0 /\ b[2] /= 0 /\ a[1] * b[2] = b[1] * a[2]

\* the well-formed rows of a k-list file that precede its first END line
KeptRows(lines) ==
    LET ends == {i \in 1..Len(lines) : lines[i].kind = "END"}
        last == IF ends = {} THEN Len(lines)
                ELSE (CHOOSE i \in ends : \A j \in ends : i <= j) - 1
    IN  SelectSeq(SubSeq(lines, 1, last), LAMBDA l : l.kind = "row")

(* C4: for every k-list file (with a well-formed row before its first END  *)
(* line and a positive weight sum), k_mesh_points holds, for each          *)
(* well-formed row before the first END line and in row order, the point   *)
(* (n1/den, n2/den, n3/den), and k_mesh_weights holds each row's weight    *)
(* divided by the sum of the kept weights, so that the weights sum to 1;   *)
(* the other rows contribute nothing.                                      *)
C4_KMeshAssembly ==
    LET file == get_wien2k_file(ExtKlist)
        rows == KeptRows(fs[Val(file)])
        total == SeqSum([i \in 1..Len(rows) |-> rows[i].w])
    IN  (pc \notin {"idle", "method"} /\ IsSome(file) /\ Len(rows) > 0 /\ total > 0) =>
            /\ IsSome(archive.method)
            /\ IsSome(Method.k_mesh_points)
            /\ IsSome(Method.k_mesh_weights)
            /\ Len(Val(Method.k_mesh_points)) = Len(rows)
            /\ Len(Val(Method.k_mesh_weights)) = Len(rows)
            /\ \A i \in 1..Len(rows) :
                  /\ \A c \in 1..3 :
                        RatEq(Val(Method.k_mesh_points)[i][c], <<rows[i].n[c], rows[i].den>>)
                  /\ RatEq(Val(Method.k_mesh_weights)[i], <<rows[i].w, total>>)

-----------------------------------------------------------------------------
\* the lines of a kind in a line file
CountKind(lines, kind) == Cardinality({i \in 1..Len(lines) : lines[i].kind = kind})

\* the eigenvalue files of a run of s spin channels
ChannelEnergyFiles(s) ==
    IF s = 1 THEN <<get_wien2k_file(ExtEnergy)>>
    ELSE <<get_wien2k_file(ExtEnergyUp), get_wien2k_file(ExtEnergyDn)>>

\* the shape of a three-axis tensor with at least one row in its first two axes
Shape(t) == <<Len(t), Len(t[1]), Len(t[1][1])>>

SccRan == pc \in {"done", "raised"} /\ IsSome(archive.scc)
Scc == Val(archive.scc)
ErrEigen == "error: Error reading eigenvalues."
ErrDos == "error: Error reading dos."
Logged(msg) == \E i \in 1..Len(log) : log[i] = msg

(* C5: when the eigenvalues read over the files of all spin channels       *)
(* number spin_count x k_point_count x band_count, the eigenvalue tensor   *)
(* has the shape [spin_count, k_point_count, band_count]; when their       *)
(* number is not divisible by spin_count x k_point_count, or no k-point    *)
(* header was found, no eigenvalue section is created and an error is      *)
(* logged.                                                                 *)
C5_EigenvalueReshape ==
    LET s == RunChannels
        files == ChannelEnergyFiles(s)
    IN  (pc = "done" /\ IsSome(archive.scc) /\ \A i \in 1..s : IsSome(files[i])) =>
            LET total == SeqSum([i \in 1..s |-> CountKind(fs[Val(files[i])], "E")])
                nk == CountKind(fs[Val(files[1])], "K")
            IN  IF nk > 0 /\ total % (s * nk) = 0
                THEN /\ IsSome(Scc.eigenvalues)
                     /\ Shape(Val(Scc.eigenvalues).eigenvalues_values)
                            = <<s, nk, total \div (s * nk)>>
                ELSE IsNone(Scc.eigenvalues) /\ Logged(ErrEigen)

-----------------------------------------------------------------------------
\* the last iteration block of the main output
LastBlock == MainBlocks[Len(MainBlocks)]
\* the multiplicities of a list of POS entries
Mults(pos) == [i \in 1..Len(pos) |-> pos[i].atom_mult]
\* the entries written before those of type i
Offset(m, i) == SeqSum(SubSeq(m, 1, i - 1))

(* C6: with the per-type forces f_1..f_n of the final iteration and the    *)
(* multiplicities m_1..m_n, atom_forces has m_1+...+m_n entries: f_1       *)
(* repeated m_1 times, then f_2 repeated m_2 times, and so on.             *)
C6_ForceExpansion ==
    (/\ SccRan
     /\ IsSome(LastBlock["FGLi"])
     /\ IsSome(LastBlock["POSi"])
     /\ Len(Val(LastBlock["POSi"])) = Len(Val(LastBlock["FGLi"]))) =>
        LET f == Val(LastBlock["FGLi"])
            m == Mults(Val(LastBlock["POSi"]))
        IN  /\ IsSome(Scc.atom_forces)
            /\ Len(Val(Scc.atom_forces).v) = SeqSum(m)
            /\ \A i \in 1..Len(f) : \A j \in 1..m[i] :
                  Val(Scc.atom_forces).v[Offset(m, i) + j] = f[i]

\* two atom types with different forces, the first of multiplicity 2, and
\* the forces were written
C6_Witness ==
    /\ pc = "done"
    /\ IsSome(archive.scc)
    /\ IsSome(LastBlock["FGLi"])
    /\ IsSome(LastBlock["POSi"])
    /\ Len(Val(LastBlock["FGLi"])) = 2
    /\ Val(LastBlock["FGLi"])[1] /= Val(LastBlock["FGLi"])[2]
    /\ Mults(Val(LastBlock["POSi"])) = <<2, 1>>
    /\ Len(Val(Scc.atom_forces).v) = 3

-----------------------------------------------------------------------------
(* C7: with two spin channels, when the energy columns of the dos1up and   *)
(* dos1dn tables differ, the inconsistency is surfaced: an error is        *)
(* logged or no DOS section is created.                                    *)
C7_DosAxisConsistency ==
    LET up == get_wien2k_file(ExtDosUp)
        dn == get_wien2k_file(ExtDosDn)
    IN  (/\ pc = "done"
         /\ IsSome(archive.scc)
         /\ RunChannels = 2
         /\ IsSome(up) /\ IsSome(dn)
         /\ fs[Val(up)].kind = "table" /\ fs[Val(dn)].kind = "table"
         /\ fs[Val(up)].cols[1] /= fs[Val(dn)].cols[1]) =>
            IsNone(Scc.dos) \/ Logged(ErrDos)

-----------------------------------------------------------------------------
Unresolved(ext) == IsNone(get_wien2k_file(ext))
Opened(exts) ==
    \E i \in 1..Len(calls) : calls[i].op = "open" /\ \E ext \in exts : EndsWith(calls[i].arg, ext)
System == Val(archive.system)

(* C8: when a companion file is unresolved the parse goes on, the fields   *)
(* that depend on the file are absent (for a two-channel run the           *)
(* eigenvalue or DOS section as soon as the up or the dn file is           *)
(* unresolved, and no such file is opened), and the fields of the files    *)
(* that are resolved have the values those files give.                     *)
C8_MissingCompanionFrame ==
    pc \in {"done", "raised"} =>
        /\ (\E ext \in CompanionExts : Unresolved(ext)) => pc = "done"
        /\ Unresolved(ExtKlist) =>
              /\ IsNone(Method.k_mesh_points) /\ IsNone(Method.k_mesh_weights)
              /\ ~Opened({ExtKlist})
        /\ Unresolved(ExtIn0) =>
              Method.XC_functional_name = <<>> /\ IsNone(Method.x_wien2k_ifft)
        /\ ~Unresolved(ExtIn0) =>
              Method.x_wien2k_ifft = fs[Val(get_wien2k_file(ExtIn0))].fft
        /\ (Unresolved(ExtIn1) /\ Unresolved(ExtIn1c)) =>
              IsNone(Method.x_wien2k_rkmax) /\ IsNone(Method.x_wien2k_wf_switch)
        /\ ~Unresolved(ExtIn1) =>
              Method.x_wien2k_rkmax = fs[Val(get_wien2k_file(ExtIn1))].rkmax
        /\ (Unresolved(ExtIn2) /\ Unresolved(ExtIn2c)) =>
              /\ IsNone(Method.x_wien2k_in2_gmax) /\ IsNone(Method.x_wien2k_in2_switch)
              /\ IsNone(Method.x_wien2k_in2_emin) /\ IsNone(Method.smearing_kind)
        /\ (IsSome(archive.system) /\ Unresolved(ExtStruct)) =>
              /\ IsNone(System.atom_labels) /\ IsNone(System.x_wien2k_lattice)
              /\ System.x_wien2k_section_equiv_atoms = <<>>
        /\ (IsSome(archive.system) /\ ~Unresolved(ExtStruct)) =>
              System.x_wien2k_lattice = fs[Val(get_wien2k_file(ExtStruct))].lattice
        /\ IsSome(archive.scc) =>
              /\ Scc.energy_total = SubGet(LastBlock, "ENE", "energy_total_scf_iteration")
              /\ (RunChannels = 1 /\ Unresolved(ExtEnergy)) =>
                    IsNone(Scc.eigenvalues) /\ ~Opened({ExtEnergy})
              /\ (RunChannels = 1 /\ Unresolved(ExtDos)) =>
                    IsNone(Scc.dos) /\ ~Opened({ExtDos})
              /\ (RunChannels = 2 /\ (Unresolved(ExtEnergyUp) \/ Unresolved(ExtEnergyDn))) =>
                    /\ IsNone(Scc.eigenvalues)
                    /\ ~Opened({ExtEnergy, ExtEnergyUp, ExtEnergyDn})
              /\ (RunChannels = 2 /\ (Unresolved(ExtDosUp) \/ Unresolved(ExtDosDn))) =>
                    /\ IsNone(Scc.dos)
                    /\ ~Opened({ExtDos, ExtDosUp, ExtDosDn})

-----------------------------------------------------------------------------
(* C9: parse runs parse_method, parse_system and parse_scc to completion   *)
(* without propagating an exception, whatever the main output and the      *)
(* companion files hold.                                                   *)
C9_NoExceptionPropagates == pc /= "raised"

-----------------------------------------------------------------------------
\* the functional codes read from the in0 file, as a list
In0Codes ==
    LET value == DictGet(ResultsOf(get_wien2k_file(ExtIn0)), "xc_functional")
    IN  IF Val(value).islist THEN Val(value).names ELSE <<Val(value).names[1]>>
Known(code) == code \in DOMAIN XcFunctionalMap
HasCodes ==
    /\ IsSome(get_wien2k_file(ExtIn0))
    /\ IsSome(DictGet(ResultsOf(get_wien2k_file(ExtIn0)), "xc_functional"))

(* C10: the XCFunctionals entries are, in list order, the canonical names  *)
(* of the functional codes the lookup table knows; each code it does not   *)
(* know gives one warning and no entry, and the codes after it are still   *)
(* emitted.                                                                *)
C10_UnknownFunctionalSkipped ==
    (MethodRan /\ HasCodes) =>
        /\ Method.XC_functional_name =
              Flatten([i \in 1..Len(In0Codes) |->
                          IF Known(In0Codes[i]) THEN XcFunctionalMap[In0Codes[i]]
                          ELSE <<>>])
        /\ Cardinality({i \in 1..Len(log) : log[i] = WarnXc})
              = Cardinality({i \in 1..Len(In0Codes) : ~Known(In0Codes[i])})

\* a code the table does not know is followed by one it knows, whose names
\* were emitted, and one warning was logged
C10_Witness ==
    /\ pc = "done"
    /\ HasCodes
    /\ Len(In0Codes) >= 2
    /\ ~Known(In0Codes[1])
    /\ Known(In0Codes[2])
    /\ Method.XC_functional_name /= <<>>
    /\ Cardinality({i \in 1..Len(log) : log[i] = WarnXc}) = 1

-----------------------------------------------------------------------------
\* the call of parse that has ended is the second one on the same directory
SecondOnSame == pc \in {"done", "raised"} /\ IsSome(previous) /\ maindir = 1
\* the directory entries that end with a suffix and start with the base
\* name of the main file
PrefixCandidates(ext) == {p \in Candidates(ext) : StartsWith(p, MainPrefix)}

(* C11: two calls of parse on the same unmodified directory end the same   *)
(* way with identical records, whatever order the directory listing gives  *)
(* its entries in, also when several entries share a suffix and more than  *)
(* one of them starts with the base name of the main file.                 *)
C11_SameRecordTwice ==
    SecondOnSame =>
        /\ archive = Val(previous).archive
        /\ pc = Val(previous).pc

\* both calls saw the entries in the same order: the records are identical
C11_SameListing ==
    (SecondOnSame /\ listdir = Val(previous).listdir) =>
        /\ archive = Val(previous).archive
        /\ pc = Val(previous).pc

-----------------------------------------------------------------------------
\* parse_scc was entered
SccEntered == \E i \in 1..Len(calls) : calls[i] = CallEnter("parse_scc")

-----------------------------------------------------------------------------
\* the k-point blocks of an eigenvalue file: for every k-point header, in
\* file order, the values of the band lines between it and the next header
KBlocks(lines) ==
    LET heads == {i \in 1..Len(lines) : lines[i].kind = "K"}
        nth(k) == CHOOSE i \in heads : Cardinality({j \in heads : j < i}) = k - 1
        stop(k) == IF k = Cardinality(heads) THEN Len(lines) ELSE nth(k + 1) - 1
        bands(k) == SelectSeq(SubSeq(lines, nth(k) + 1, stop(k)), LAMBDA l : l.kind = "E")
    IN  [k \in 1..Cardinality(heads) |-> [b \in 1..Len(bands(k)) |-> bands(k)[b].v]]

\* the k-point blocks of a file do not all hold the same number of band lines
Uneven(lines) ==
    \E j, k \in 1..Len(KBlocks(lines)) : Len(KBlocks(lines)[j]) /= Len(KBlocks(lines)[k])

(* C13: in every eigenvalue tensor that is emitted, row [s][k] holds the   *)
(* band values listed under the k-th k-point header of the file of spin    *)
(* channel s, in file order; and a file whose k-point blocks do not all    *)
(* hold the same number of band lines yields no tensor.                    *)
C13_EigenvaluePlacement ==
    (pc = "done" /\ IsSome(archive.scc)) =>
        /\ IsSome(Scc.eigenvalues) =>
              LET values == Val(Scc.eigenvalues).eigenvalues_values
                  files == ChannelEnergyFiles(Len(values))
              IN  \A s \in 1..Len(values) :
                      /\ IsSome(files[s])
                      /\ values[s] = KBlocks(fs[Val(files[s])])
        /\ \A s \in 1..RunChannels :
              LET file == ChannelEnergyFiles(RunChannels)[s]
              IN  (IsSome(file) /\ Uneven(fs[Val(file)])) => IsNone(Scc.eigenvalues)

\* the files whose k-point blocks all hold the same number of band lines,
\* with no band line before the first header: the rows of the tensor of a
\* one-channel run are the blocks of the file
C13_EvenFiles ==
    LET file == get_wien2k_file(ExtEnergy)
    IN  (/\ pc = "done" /\ IsSome(archive.scc) /\ IsSome(Scc.eigenvalues)
         /\ ~Uneven(fs[Val(file)])
         /\ CountKind(fs[Val(file)], "E") = SeqSum([k \in 1..Len(KBlocks(fs[Val(file)])) |->
                                                       Len(KBlocks(fs[Val(file)])[k])])) =>
            Val(Scc.eigenvalues).eigenvalues_values = <<KBlocks(fs[Val(file)])>>

-----------------------------------------------------------------------------
\* the lines of a k-list file that precede its first END line
BeforeEnd(lines) ==
    LET ends == {i \in 1..Len(lines) : lines[i].kind = "END"}
    IN  SubSeq(lines, 1, IF ends = {} THEN Len(lines)
                         ELSE (CHOOSE i \in ends : \A j \in ends : i <= j) - 1)

\* parse_method was left by an exception
MethodRaised == pc = "raised" /\ IsNone(archive.system)

(* C14: a row of the k-list file before END that cannot be read as index,  *)
(* three numerators, denominator and weight (a token that is no number, or *)
(* fewer than six tokens) is dropped on its own: no exception leaves       *)
(* get_kpoints, the points and the weights have equal length, and every    *)
(* well-formed row before END still gives its point and its weight.        *)
(* (Stated for the files with a well-formed row of positive weight.)       *)
C14_MalformedRowDropped ==
    LET file == get_wien2k_file(ExtKlist)
        lines == BeforeEnd(fs[Val(file)])
        rows == KeptRows(fs[Val(file)])
        total == SeqSum([i \in 1..Len(rows) |-> rows[i].w])
    IN  (/\ pc \notin {"idle", "method"}
         /\ IsSome(file)
         /\ \E i \in 1..Len(lines) : lines[i].kind \in {"bad", "short"}
         /\ Len(rows) > 0 /\ total > 0) =>
            /\ ~MethodRaised
            /\ IsSome(Method.k_mesh_points)
            /\ IsSome(Method.k_mesh_weights)
            /\ Len(Val(Method.k_mesh_points)) = Len(rows)
            /\ Len(Val(Method.k_mesh_weights)) = Len(rows)
            /\ \A i \in 1..Len(rows) :
                  /\ \A c \in 1..3 :
                        RatEq(Val(Method.k_mesh_points)[i][c], <<rows[i].n[c], rows[i].den>>)
                  /\ RatEq(Val(Method.k_mesh_weights)[i], <<rows[i].w, total>>)

\* the same for the rows with a token that is no number, in the files with
\* no row of fewer than six tokens
C14_NonNumericDropped ==
    LET file == get_wien2k_file(ExtKlist)
        lines == BeforeEnd(fs[Val(file)])
        rows == KeptRows(fs[Val(file)])
        total == SeqSum([i \in 1..Len(rows) |-> rows[i].w])
    IN  (/\ pc \notin {"idle", "method"}
         /\ IsSome(file)
         /\ \E i \in 1..Len(lines) : lines[i].kind = "bad"
         /\ \A i \in 1..Len(lines) : lines[i].kind /= "short"
         /\ Len(rows) > 0 /\ total > 0) =>
            /\ ~MethodRaised
            /\ IsSome(Method.k_mesh_points)
            /\ Len(Val(Method.k_mesh_points)) = Len(rows)
            /\ Len(Val(Method.k_mesh_weights)) = Len(rows)

-----------------------------------------------------------------------------
\* the site multiplicities recorded by parse_system: the number of
\* positions of every atom type of the structure record, in its order
SiteMults ==
    [i \in 1..Len(System.x_wien2k_section_equiv_atoms) |->
        System.x_wien2k_section_equiv_atoms[i].positions]

\* the index of the first call of an operation in the call log (0 without one)
FirstCall(c) ==
    IF \E i \in 1..Len(calls) : calls[i] = c
    THEN CHOOSE i \in 1..Len(calls) : calls[i] = c /\ \A j \in 1..(i - 1) : calls[j] /= c
    ELSE 0

(* C15: parse_system has completed before parse_scc expands the forces,    *)
(* and the forces of the final iteration are expanded by the site          *)
(* multiplicities recorded during structure parsing, in the atom order of  *)
(* the structure record.                                                   *)
C15_StructureGatesForces ==
    (/\ SccEntered
     /\ Len(MainBlocks) > 0
     /\ IsSome(LastBlock["FGLi"])
     /\ Len(System.x_wien2k_section_equiv_atoms) = Len(Val(LastBlock["FGLi"]))) =>
        LET f == Val(LastBlock["FGLi"])
            m == SiteMults
        IN  /\ 0 < FirstCall(CallEnter("parse_system"))
            /\ FirstCall(CallEnter("parse_system")) < FirstCall(CallEnter("parse_scc"))
            /\ IsSome(archive.scc)
            /\ IsSome(Scc.atom_forces)
            /\ Len(Val(Scc.atom_forces).v) = SeqSum(m)
            /\ \A i \in 1..Len(f) : \A j \in 1..m[i] :
                  Val(Scc.atom_forces).v[Offset(m, i) + j] = f[i]

\* the order alone: whenever parse_scc was entered, parse_system was
\* entered before it and has written the system section
C15_SystemBeforeScc ==
    SccEntered =>
        /\ IsSome(archive.system)
        /\ 0 < FirstCall(CallEnter("parse_system"))
        /\ FirstCall(CallEnter("parse_system")) < FirstCall(CallEnter("parse_scc"))

-----------------------------------------------------------------------------
\* the forces of a block expanded by the multiplicities of its own POS
\* sub-sections
BlockForces(block) ==
    Flatten([i \in 1..Len(Val(block["FGLi"])) |->
                Repeat(Val(block["FGLi"])[i], Mults(Val(block["POSi"]))[i])])

(* C16: after parse_scc has returned on a main output with at least one    *)
(* iteration, energy_total and energy_reference_fermi are the values of    *)
(* the last iteration block (unset when the last block lacks them, even if *)
(* an earlier block has them) and atom_forces is built from the FGL forces *)
(* and the multiplicities of the last block only; on a main output without *)
(* iteration parse_scc creates no calculation section.                     *)
C16_FinalFromLastIteration ==
    pc = "done" =>
        IF Len(MainBlocks) = 0 THEN IsNone(archive.scc)
        ELSE /\ IsSome(archive.scc)
             /\ Scc.energy_total = SubGet(LastBlock, "ENE", "energy_total_scf_iteration")
             /\ Scc.energy_reference_fermi
                   = SubGet(LastBlock, "FER", "energy_reference_fermi_iteration")
             /\ IF IsNone(LastBlock["FGLi"]) THEN IsNone(Scc.atom_forces)
                ELSE /\ IsSome(Scc.atom_forces)
                     /\ Val(Scc.atom_forces).v = BlockForces(LastBlock)

\* two iteration blocks: the first has a total energy, a Fermi energy and
\* forces, the last has none of them, and the calculation has none
C16_Witness ==
    /\ pc = "done"
    /\ Len(MainBlocks) = 2
    /\ IsSome(MainBlocks[1]["ENE"]) /\ IsSome(MainBlocks[1]["FER"])
    /\ IsSome(MainBlocks[1]["FGLi"])
    /\ IsNone(LastBlock["ENE"]) /\ IsNone(LastBlock["FER"]) /\ IsNone(LastBlock["FGLi"])
    /\ IsSome(archive.scc)
    /\ IsNone(Scc.energy_total) /\ IsNone(Scc.energy_reference_fermi)
    /\ IsNone(Scc.atom_forces)

-----------------------------------------------------------------------------
\* the option file the fields should come from: the file with the suffix
\* when the directory has one, else the file with the fall-back suffix
OptionFile(ext, fallback) ==
    IF ~Unresolved(ext) THEN get_wien2k_file(ext) ELSE get_wien2k_file(fallback)

\* the integration data of the method section are those of an in2 file
In2FieldsFrom(file) ==
    LET in2 == ResultsOf(file)
    IN  /\ Method.x_wien2k_in2_gmax = DictGet(in2, "gmax")
        /\ Method.x_wien2k_in2_switch = DictGet(in2, "switch")
        /\ Method.x_wien2k_in2_emin = DictGet(in2, "emin")
        /\ Method.smearing_kind =
              IF IsSome(DictGet(in2, "smearing"))
              THEN Some(SmearingKind(Val(DictGet(in2, "smearing")).kind)) ELSE None
        /\ Method.smearing_width =
              IF IsSome(DictGet(in2, "smearing"))
              THEN Some(<<"Ry->J", Val(DictGet(in2, "smearing")).width>>) ELSE None

\* the cut-off data of the method section are those of an in1 file
In1FieldsFrom(file) ==
    LET in1 == ResultsOf(file)
    IN  /\ Method.x_wien2k_rkmax = DictGet(in1, "rkmax")
        /\ Method.x_wien2k_wf_switch = DictGet(in1, "wf_switch")

(* C17: parse_method reads the integration data (switch, emin, smearing    *)
(* kind and width, gmax) from the file with suffix in2 when the directory  *)
(* has one and from the file with suffix in2c only when it has none; the   *)
(* cut-off data come from in1, and from in1c only when there is no in1.    *)
C17_OptionFileLookup ==
    MethodRan =>
        /\ In2FieldsFrom(OptionFile(ExtIn2, ExtIn2c))
        /\ In1FieldsFrom(OptionFile(ExtIn1, ExtIn1c))

\* the cut-off data alone: from in1, and from in1c only without in1
C17_In1Lookup == MethodRan => In1FieldsFrom(OptionFile(ExtIn1, ExtIn1c))

-----------------------------------------------------------------------------
\* the entry of the directory that alone ends with a suffix
Sole(ext) == CHOOSE p \in Candidates(ext) : TRUE

(* C18: when exactly one directory entry ends with the suffix asked for,   *)
(* get_wien2k_file returns that entry, also when its name does not start   *)
(* with the base name of the main file, and the file is read (the k-mesh   *)
(* is that of the sole k-list file); an entry that does not start with the *)
(* base name is refused only when two or more entries share the suffix.    *)
C18_SoleCandidateTaken ==
    Started =>
        /\ \A ext \in CompanionExts \cup {ExtIn2Typo} :
              /\ Cardinality(Candidates(ext)) = 1 => get_wien2k_file(ext) = Some(Sole(ext))
              /\ (/\ IsSome(get_wien2k_file(ext))
                  /\ ~StartsWith(Val(get_wien2k_file(ext)), MainPrefix)) =>
                        Cardinality(Candidates(ext)) = 1
        /\ (pc \in {"system", "scc", "done"} /\ Cardinality(Candidates(ExtKlist)) = 1) =>
              LET rows == KeptRows(fs[Sole(ExtKlist)])
              IN  /\ IsSome(Method.k_mesh_weights)
                  /\ Val(Method.k_mesh_weights) =
                        [i \in 1..Len(rows) |->
                            <<rows[i].w, SeqSum([j \in 1..Len(rows) |-> rows[j].w])>>]

\* the only k-list file of the directory belongs to another run, and its
\* k-mesh was written
C18_Witness ==
    /\ pc = "done"
    /\ Candidates(ExtKlist) = {Name(<<"other">>, ExtKlist)}
    /\ get_wien2k_file(ExtKlist) = Some(Name(<<"other">>, ExtKlist))
    /\ Method.k_mesh_weights = Some(<< <<3, 4>>, <<1, 4>> >>)

-----------------------------------------------------------------------------
\* the second call of parse, on another directory, has returned
SecondOnOther == pc = "done" /\ IsSome(previous) /\ maindir = 2

\* a sub-parser holds the file resolved in the directory of the current
\* parse, and nothing when no file was resolved
Holds(parser, file) ==
    /\ parsers[parser] = file
    /\ parserdir[parser] = IF IsNone(file) THEN 0 ELSE maindir

====
